---- MODULE Spec2Model ----
(***************************************************************************)
(* Model of the Model runtime (src/src/utils.js): the constructor          *)
(* protocol, the dirty-tracking algorithm of set/_clearDirty/hasChanged/   *)
(* changed, and the save/fetch/destroy lifecycle with its asynchronous     *)
(* validate and persistence-adapter callbacks.                             *)
(***************************************************************************)
EXTENDS Integers, Sequences, FiniteSets, TLC

VARIABLES heap, type, overlap, app, calls, last

vars == <<heap, type, overlap, app, calls, last>>

---------------------------------------------------------------------------
(* Bounds *)

\* longest property bag handed to the constructor or to bag-form set
MaxBag == 2
\* most handlers registered for one event name on one entity
MaxHandlers == 2
\* longest chain of derivations from Model
MaxDepth == 3

---------------------------------------------------------------------------
(* JavaScript values and names *)

Undef == "undefined"
Null == "null"
Vals == {Undef, Null, "v1", "v2"}

\* property names used on entities; "_name" is the backing field of the
\* accessor "name"
Names == {"id", "name", "_name", "foo"}
Entities == {"p"}

\* x != null / x == null (loose comparison: undefined and null are equal)
NotNull(v) == v \notin {Undef, Null}
\* !error
Falsy(v) == v \in {Undef, Null}

EmptyMap == [k \in {} |-> Undef]
Put(m, k, v) == [x \in (DOMAIN m) \cup {k} |-> IF x = k THEN v ELSE m[x]]

\* property bags: object literals, iterated in insertion order
\* the values the application and the adapter supply for each name
ValsOf(n) == CASE n = "id" -> {Undef, Null, "v1"}
               [] n = "foo" -> {Undef, "v1", "v2"}
               [] OTHER -> {Undef, "v1"}
Pairs == {pr \in Names \X Vals : pr[2] \in ValsOf(pr[1])}
DistinctKeys(b) == \A i, j \in DOMAIN b : i # j => b[i][1] # b[j][1]
BagsOfLen(n) == {b \in [1..n -> Pairs] : DistinctKeys(b)}
Bags == UNION {BagsOfLen(n) : n \in 0..MaxBag}
BagKeys(b) == {b[i][1] : i \in DOMAIN b}
\* bag[key], undefined when the key is absent
BagGet(b, k) == IF k \in BagKeys(b)
                THEN b[CHOOSE i \in DOMAIN b : b[i][1] = k][2]
                ELSE Undef

---------------------------------------------------------------------------
(* Types produced by Model.derive: the members the runtime consults *)

\* accessor pairs: get name() { return this._name }, set name(v) { this.set('_name', v) }
Backing(n) == "_" \o n

DefaultsChoices == { <<>>,
                     << <<"foo", "v1">> >>,
                     << <<"name", "v1">>, <<"foo", Undef>> >> }

\* the four operations of a data record
Ops == {"create", "update", "fetch", "destroy"}

\* a member of a prototype, or of the record handed to derive:
\*   kind  "undefined"; "function"; "accessor" (a getter/setter pair);
\*         for validate "default" or "custom"; for the data record
\*         "default", "custom" or "prompt"
\*   runs  for init, the init hooks a call of it runs, in order, each named
\*         by the derivation step that supplied it; a hook that calls
\*         super_.init continues with the hooks of the parent's init
\*   ops   for a data record, the operations it has
Member(kind, runs, ops) == [kind |-> kind, runs |-> runs, ops |-> ops]
Undefined == Member(Undef, <<>>, {})
Function == Member("function", <<>>, {})

\* an object: its own members and the enumerable members it inherits
NewObject == [own |-> EmptyMap, inherited |-> EmptyMap]
Literal(members) == [own |-> members, inherited |-> EmptyMap]
\* obj[prop]
Lookup(obj, prop) == IF prop \in DOMAIN obj.own THEN obj.own[prop]
                     ELSE IF prop \in DOMAIN obj.inherited
                          THEN obj.inherited[prop]
                     ELSE Undefined
\* for (var prop in source)
ForIn(source) == (DOMAIN source.own) \cup (DOMAIN source.inherited)

\* extend copying only the own members of source
extend_OwnOnly(obj, source) ==
    LET copied == {prop \in DOMAIN source.own :
                      Lookup(source, prop) # Undefined}
    IN  [obj EXCEPT !.own = [prop \in (DOMAIN obj.own) \cup copied |->
                                IF prop \in copied THEN Lookup(source, prop)
                                ELSE obj.own[prop]]]

\* the members of source that extend assigns (obj[prop] = source[prop])
\* although obj has an accessor of that name: the assignment does not
\* replace the accessor, it calls its setter with obj as this
Assigned(obj, source) ==
    {prop \in ForIn(source) :
        /\ Lookup(source, prop) \notin {Undefined}
        /\ Lookup(source, prop).kind # "accessor"
        /\ prop \in DOMAIN obj.own
        /\ obj.own[prop].kind = "accessor"}

\* extend replacing an accessor of obj by the plain member of source
extend_Redefines(obj, source) ==
    LET copied == {prop \in ForIn(source) : Lookup(source, prop) # Undefined}
    IN  [obj EXCEPT !.own = [prop \in (DOMAIN obj.own) \cup copied |->
                                IF prop \in copied THEN Lookup(source, prop)
                                ELSE obj.own[prop]]]

\* exports.extend(obj, source): every enumerable member of source, own or
\* inherited, that is an accessor or whose value is not undefined becomes
\* an own member of obj, unless it is a plain member assigned to an
\* accessor of obj
extend(obj, source) ==
    LET copied == {prop \in ForIn(source) : Lookup(source, prop) # Undefined}
                  \ Assigned(obj, source)
    IN  [obj EXCEPT !.own = [prop \in (DOMAIN obj.own) \cup copied |->
                                IF prop \in copied THEN Lookup(source, prop)
                                ELSE obj.own[prop]]]

\* whether extend(obj, source) throws: the setter of the pair
\* set name(v) { this.set('_name', v) } runs with obj as this, a prototype
\* that has no _dirtyFields; hasChanged() is true of it
\* (undefined !== EMPTY_DIRTY), set allocates nothing and
\* this._dirtyFields[dirtyName] = value raises a TypeError
Throws(obj, source) == Assigned(obj, source) # {}

\* events.EventEmitter.prototype, as far as the model goes
EventEmitterPrototype == Literal([on |-> Function, emit |-> Function])

\* function Model with Model.prototype: init, validate and data are its
\* own, on and emit come with util.inherits(Model, events.EventEmitter)
ModelConstructor ==
    [prototype |->
        [own |-> [init |-> Member("function", <<>>, {}),
                  validate |-> Member("default", <<>>, {}),
                  data |-> Member("default", <<>>, Ops)],
         inherited |-> EventEmitterPrototype.own],
     super_ |-> EventEmitterPrototype, threw |-> FALSE]

\* Model.derive(instanceProperties), called on the constructor base; when
\* the call throws there is no derived constructor, and base is what the
\* application is left with (threw: a derivation of the chain threw)
derive(base, instanceProperties) ==
    IF base.threw \/ Throws(extend(NewObject, base.prototype),
                            instanceProperties)
    THEN [base EXCEPT !.threw = TRUE]
    ELSE [prototype |-> extend(extend(NewObject, base.prototype),
                               instanceProperties),
          super_ |-> base.prototype, threw |-> FALSE]

\* what one derivation step overrides: init ("undefined" for none, "own"
\* for a hook that does not call the parent's, "super" for one that calls
\* Derived.super_.init.call(this, params)), validate, the data record
\* (its kind and the operations it has) and the member name ("accessor"
\* for the accessor pair, "function" for a method)
NoOverrides == [init |-> Undef, validate |-> Undef,
                data |-> Undefined, name |-> Undef]
\* the object literal that states the overrides o of the step-th
\* derivation; parent is the prototype that becomes Derived.super_
InstanceProperties(parent, step, o) ==
    Literal([init |-> CASE o.init = "own" -> Member("function", <<step>>, {})
                        [] o.init = "super" ->
                             Member("function",
                                    <<step>> \o Lookup(parent, "init").runs,
                                    {})
                        [] OTHER -> Undefined,
             validate |-> IF o.validate = Undef THEN Undefined
                          ELSE Member(o.validate, <<>>, {}),
             data |-> o.data,
             name |-> IF o.name = Undef THEN Undefined
                      ELSE Member(o.name, <<>>, {})])

\* the constructor a chain of derivations yields, from Model on
RECURSIVE Derive(_)
Derive(chain) ==
    IF chain = <<>> THEN ModelConstructor
    ELSE LET base == Derive(SubSeq(chain, 1, Len(chain) - 1))
         IN  derive(base,
                    InstanceProperties(base.prototype, Len(chain),
                                       chain[Len(chain)]))

\* what the runtime consults of a constructor's prototype
TypeOf(constructor) ==
    LET proto == constructor.prototype
    IN  [accessors |-> {m \in {"name"} : Lookup(proto, m).kind = "accessor"},
         validate |-> Lookup(proto, "validate").kind,
         data |-> Lookup(proto, "data").kind,
         init |-> Lookup(proto, "init").runs,
         missing |-> Ops \ Lookup(proto, "data").ops,
         emitter |-> /\ Lookup(proto, "on") # Undefined
                     /\ Lookup(proto, "emit") # Undefined]

\* validate: "default" is Model.prototype.validate, "custom" an override
\* data: "default" is Model.prototype.data, "custom" a record that overrides
\* all four operations with ones that call back in a later turn, "prompt" a
\* record that overrides them with ones that may call back before returning
\* defaults is read by the constructor only: it is an input of Construct
\* init: the init hooks the constructor runs (none: Model.prototype.init)
\* missing: the operations the data record lacks
\* emitter: whether on and emit are members
AllTypes == [accessors : {{}, {"name"}},
             validate : {"default", "custom"},
             data : {"default", "custom", "prompt"},
             init : {<<>>}, missing : {{}}, emitter : {TRUE}]
Types == {t \in AllTypes :
            \/ t.accessors = {} /\ t.validate = "default" /\ t.data = "default"
            \/ t.validate = "custom" /\ t.data = "custom"}

\* bags handed to bag-form set by the application and by fetch adapters
SetBags == { << <<"id", "v1">>, <<"foo", "v1">> >>,
             << <<"foo", "v2">>, <<"name", "v1">> >>,
             << <<"name", Undef>>, <<"id", Null>> >> }

---------------------------------------------------------------------------
(* The heap: entities, the shared EMPTY_DIRTY object, Date objects *)

\* event names, handler functions and arguments the application uses
EventNames == {"foo", "bar"}
Handlers == {"h1", "h2"}
EventArgs == {12345, 67890}

\* inits: the runs of init hooks on the entity, in order
\* _events: the handlers registered on the entity, by event name
BlankEntity == [fields |-> [n \in Names |-> Undef],
                _dirtyFields |-> [ref |-> Undef, m |-> EmptyMap],
                refreshedAt |-> Undef,
                inits |-> <<>>,
                _events |-> [n \in EventNames |-> <<>>]]

\* Date objects, told apart by identity only
Dates == {"d1", "d2"}
\* new Date(): an object no entity refers to yet
NewDate(h) == CHOOSE d \in Dates :
                  \A e \in DOMAIN h.objs : h.objs[e].refreshedAt # d

\* var EMPTY_DIRTY = {}
EMPTY_DIRTY == [ref |-> "EMPTY_DIRTY", m |-> EmptyMap]

\* the object this._dirtyFields refers to
DirtyObject(h, self) ==
    IF h.objs[self]._dirtyFields.ref = "EMPTY_DIRTY"
    THEN h.EMPTY_DIRTY
    ELSE h.objs[self]._dirtyFields.m

\* this._dirtyFields[dirtyName] = value
DirtyWrite(h, self, dirtyName, value) ==
    IF h.objs[self]._dirtyFields.ref = "EMPTY_DIRTY"
    THEN [h EXCEPT !.EMPTY_DIRTY = Put(@, dirtyName, value)]
    ELSE [h EXCEPT !.objs[self]._dirtyFields.m = Put(@, dirtyName, value)]

\* this[propertyName], through the getter when the type declares one
Get(h, self, propertyName) ==
    IF propertyName \in type.accessors
    THEN h.objs[self].fields[Backing(propertyName)]
    ELSE h.objs[self].fields[propertyName]

_clearDirty(h, self) == [h EXCEPT !.objs[self]._dirtyFields = EMPTY_DIRTY]

hasChanged(h, self) == h.objs[self]._dirtyFields # EMPTY_DIRTY

changed(h, self) == IF ~hasChanged(h, self) THEN EmptyMap
                    ELSE DirtyObject(h, self)

isNew(h, self) == ~NotNull(h.objs[self].fields["id"])

\* names that start with an underscore, and what substr(1) makes of them
Underscored == {"_name", "__name"}
Substr1(propertyName) == CASE propertyName = "_name" -> "name"
                           [] propertyName = "__name" -> "_name"

\* DirtyName recording the entry under the name as given
DirtyName_NoStrip(propertyName) == propertyName

\* propertyName[0] === '_' ? propertyName.substr(1) : propertyName
DirtyName(propertyName) ==
    IF propertyName \in Underscored THEN Substr1(propertyName)
    ELSE propertyName

\* FreshDirty that keeps writing to the object _dirtyFields refers to
FreshDirty_KeepsShared(h, self) == h

\* this._dirtyFields = {}: an object of the entity's own
FreshDirty(h, self) ==
    [h EXCEPT !.objs[self]._dirtyFields = [ref |-> "obj", m |-> EmptyMap]]

\* set allocating the dirty mapping before it tests whether the value is
\* the current one
set_AllocatesFirst(h, self, propertyName, value) ==
    LET h1 == IF ~hasChanged(h, self) THEN FreshDirty(h, self) ELSE h
    IN  IF Get(h, self, propertyName) = value
        THEN h1
        ELSE LET h2 == DirtyWrite(h1, self, DirtyName(propertyName), value)
                 field == IF propertyName \in type.accessors
                          THEN Backing(propertyName) ELSE propertyName
             IN  [h2 EXCEPT !.objs[self].fields[field] = value]

\* set starting a new dirty mapping for each change
set_StartsOver(h, self, propertyName, value) ==
    IF Get(h, self, propertyName) = value
    THEN h
    ELSE LET h2 == DirtyWrite(FreshDirty(h, self), self,
                              DirtyName(propertyName), value)
             field == IF propertyName \in type.accessors
                      THEN Backing(propertyName) ELSE propertyName
         IN  [h2 EXCEPT !.objs[self].fields[field] = value]

\* set recording the value the field had, not the one it gets
set_RecordsPrevious(h, self, propertyName, value) ==
    IF Get(h, self, propertyName) = value
    THEN h
    ELSE LET h1 == IF ~hasChanged(h, self) THEN FreshDirty(h, self) ELSE h
             h2 == DirtyWrite(h1, self, DirtyName(propertyName),
                              Get(h, self, propertyName))
             field == IF propertyName \in type.accessors
                      THEN Backing(propertyName) ELSE propertyName
         IN  [h2 EXCEPT !.objs[self].fields[field] = value]

\* set clearing the dirty state when the name is id, as the bag form does
set_ClearsOnId(h, self, propertyName, value) ==
    IF Get(h, self, propertyName) = value
    THEN h
    ELSE LET h1 == IF ~hasChanged(h, self) THEN FreshDirty(h, self) ELSE h
             h2 == DirtyWrite(h1, self, DirtyName(propertyName), value)
             field == IF propertyName \in type.accessors
                      THEN Backing(propertyName) ELSE propertyName
             h3 == [h2 EXCEPT !.objs[self].fields[field] = value]
         IN  IF propertyName = "id" THEN _clearDirty(h3, self) ELSE h3

\* set without the test that skips a value identical to the current one
set_NoSameCheck(h, self, propertyName, value) ==
    LET h1 == IF ~hasChanged(h, self) THEN FreshDirty(h, self) ELSE h
        h2 == DirtyWrite(h1, self, DirtyName(propertyName), value)
        field == IF propertyName \in type.accessors
                 THEN Backing(propertyName) ELSE propertyName
    IN  [h2 EXCEPT !.objs[self].fields[field] = value]

\* single form of set(propertyName, value)
RECURSIVE set(_, _, _, _)
set(h, self, propertyName, value) ==
    IF Get(h, self, propertyName) = value
    THEN h
    ELSE LET h1 == IF ~hasChanged(h, self) THEN FreshDirty(h, self) ELSE h
             h2 == DirtyWrite(h1, self, DirtyName(propertyName), value)
         IN  \* this[propertyName] = value, through the setter if declared
             IF propertyName \in type.accessors
             THEN set(h2, self, Backing(propertyName), value)
             ELSE [h2 EXCEPT !.objs[self].fields[propertyName] = value]

\* for (key in bag) this.set(key, bag[key])
RECURSIVE SetEach(_, _, _)
SetEach(h, self, bag) ==
    IF bag = <<>> THEN h
    ELSE SetEach(set(h, self, Head(bag)[1], Head(bag)[2]), self, Tail(bag))

\* setBag clearing the dirty state before the pairs are applied
setBag_ClearsBefore(h, self, properties) ==
    LET hasId == "id" \in BagKeys(properties)
        h1 == IF hasId THEN _clearDirty(h, self) ELSE h
    IN  SetEach(h1, self, properties)

\* bag form of set(properties)
setBag(h, self, properties) ==
    LET h1 == SetEach(h, self, properties)
        hasId == "id" \in BagKeys(properties)
    IN  IF hasId THEN _clearDirty(h1, self) ELSE h1

\* for (key in bag) this[key] = bag[key], without tracking
RECURSIVE AssignEach(_, _, _)
AssignEach(h, self, bag) ==
    IF bag = <<>> THEN h
    ELSE AssignEach([h EXCEPT !.objs[self].fields[
                                  IF Head(bag)[1] \in type.accessors
                                  THEN Backing(Head(bag)[1])
                                  ELSE Head(bag)[1]] = Head(bag)[2]],
                    self, Tail(bag))

\* Model assigning the defaults to the entity without tracking them
Model_AssignsDefaults(h, self, defaults, properties) ==
    LET h0 == [h EXCEPT !.objs = [x \in (DOMAIN h.objs) \cup {self} |->
                           IF x = self THEN BlankEntity ELSE h.objs[x]]]
        h3 == SetEach(AssignEach(_clearDirty(h0, self), self, defaults),
                      self, properties)
    IN  IF NotNull(BagGet(properties, "id")) THEN _clearDirty(h3, self)
        ELSE h3

\* Model clearing the dirty state whenever properties has an id key
Model_ClearsOnIdKey(h, self, defaults, properties) ==
    LET h0 == [h EXCEPT !.objs = [x \in (DOMAIN h.objs) \cup {self} |->
                           IF x = self THEN BlankEntity ELSE h.objs[x]]]
        h3 == SetEach(SetEach(_clearDirty(h0, self), self, defaults),
                      self, properties)
    IN  IF "id" \in BagKeys(properties) THEN _clearDirty(h3, self) ELSE h3

\* Model with the dirty state cleared whether or not an id was passed
Model_AlwaysClears(h, self, defaults, properties) ==
    LET h0 == [h EXCEPT !.objs = [x \in (DOMAIN h.objs) \cup {self} |->
                           IF x = self THEN BlankEntity ELSE h.objs[x]]]
        h3 == SetEach(SetEach(_clearDirty(h0, self), self, defaults),
                      self, properties)
    IN  _clearDirty(h3, self)

\* Model without the clearing for an entity that comes with an id
Model_NeverClears(h, self, defaults, properties) ==
    LET h0 == [h EXCEPT !.objs = [x \in (DOMAIN h.objs) \cup {self} |->
                           IF x = self THEN BlankEntity ELSE h.objs[x]]]
    IN  SetEach(SetEach(_clearDirty(h0, self), self, defaults),
                self, properties)

\* function Model(properties, callback), with the default (empty) init
Model(h, self, defaults, properties) ==
    LET h0 == [h EXCEPT !.objs = [x \in (DOMAIN h.objs) \cup {self} |->
                           IF x = self THEN BlankEntity ELSE h.objs[x]]]
        h1 == _clearDirty(h0, self)
        h2 == SetEach(h1, self, defaults)
        h3 == SetEach(h2, self, properties)
        dontMarkDirty == NotNull(BagGet(properties, "id"))
    IN  IF dontMarkDirty THEN _clearDirty(h3, self) ELSE h3

\* one run of an init hook: the derivation step that supplied the hook,
\* the arguments it received, and the fields and dirty state it could read
Ran(h, self, step, properties, callback) ==
    [step |-> step, properties |-> properties, callback |-> callback,
     fields |-> h.objs[self].fields,
     _dirtyFields |-> h.objs[self]._dirtyFields]

\* this.init.apply(this, arguments): the hooks run in order; a hook reaches
\* the parent's through Derived.super_.init.call(this, params), which
\* hands on the properties and no callback
RECURSIVE RunInit(_, _, _, _, _)
RunInit(h, self, runs, properties, callback) ==
    IF runs = <<>> THEN h
    ELSE RunInit([h EXCEPT !.objs[self].inits =
                     Append(@, Ran(h, self, Head(runs), properties, callback))],
                 self, Tail(runs), properties, Undef)

\* CallbacksByModel invoking the callback once the entity is set up
CallbacksByModel_Once(callback) == IF callback = Undef THEN 0 ELSE 1

\* how many times the constructor itself invokes the callback it was
\* given: it only hands it to init
CallbacksByModel(callback) == 0

\* New invoking init before defaults and properties are applied
New_InitFirst(h, self, t, defaults, properties, callback) ==
    LET h1 == RunInit(Model(h, self, <<>>, <<>>), self, t.init,
                      properties, callback)
        h3 == SetEach(SetEach(h1, self, defaults), self, properties)
    IN  IF NotNull(BagGet(properties, "id")) THEN _clearDirty(h3, self)
        ELSE h3

\* New invoking init once in Model and once more in the derived constructor
New_InitTwice(h, self, t, defaults, properties, callback) ==
    LET h1 == RunInit(Model(h, self, defaults, properties), self, t.init,
                      properties, callback)
    IN  IF t.init = <<>> THEN h1
        ELSE RunInit(h1, self, t.init, properties, callback)

\* new Type(properties, callback): the derived constructors hand their
\* arguments down to Model (base.apply(this, arguments)), which ends with
\* this.init.apply(this, arguments)
New(h, self, t, defaults, properties, callback) ==
    RunInit(Model(h, self, defaults, properties), self, t.init,
            properties, callback)

\* entity.on(eventName, handler) of events.EventEmitter
on(h, self, eventName, handler) ==
    [h EXCEPT !.objs[self]._events[eventName] = Append(@, handler)]

\* entity.emit(eventName, args) of events.EventEmitter: the calls of
\* handlers it makes before it returns, in order
emit(h, self, eventName, args) ==
    [i \in 1..Len(h.objs[self]._events[eventName]) |->
        [handler |-> h.objs[self]._events[eventName][i], args |-> args,
         this |-> self]]

---------------------------------------------------------------------------
(* Error values handed to completion callbacks *)

\* a falsy value (undefined, null) or an object with the listed properties
Value(v) == [v |-> v, props |-> {}, validationErrors |-> <<>>]
AdapterError == [v |-> "object", props |-> {"msg"}, validationErrors |-> <<>>]
NotImplemented == [v |-> "object", props |-> {"notImplemented"},
                   validationErrors |-> <<>>]
BadImplementation == [v |-> "object", props |-> {"badImplementation", "message"},
                      validationErrors |-> <<>>]
ValidationError(errors) == [v |-> "object", props |-> {"validationErrors"},
                            validationErrors |-> errors]
\* !error
NoError(error) == Falsy(error.v)
\* the exception a call of a member that is undefined raises
TypeError == Value("TypeError")

\* what a custom validate may report, and what a custom adapter may report
ErrorLists == { <<>>, <<"an error">>, <<"e1", "e2">> }
AdapterResults == {Value(Undef), Value(Null), AdapterError}

---------------------------------------------------------------------------
(* Lifecycle: the callbacks save, fetch and destroy hand to validate and to
   the adapter *)

\* self.refreshedAt = new Date()
Refresh(h, self) == [h EXCEPT !.objs[self].refreshedAt = NewDate(h)]

\* fetchDone without the clearing of the dirty state
fetchDone_NoClear(h, self, error) ==
    IF NoError(error) THEN Refresh(h, self) ELSE h

\* fetchDone stamping refreshedAt whatever the adapter reported
fetchDone_AlwaysRefreshes(h, self, error) ==
    IF NoError(error) THEN _clearDirty(Refresh(h, self), self)
    ELSE Refresh(h, self)

\* callback given to data.fetch
fetchDone(h, self, error) ==
    IF NoError(error) THEN _clearDirty(Refresh(h, self), self) ELSE h

\* destroyDone removing the id of the destroyed entity
destroyDone_RemovesId(h, self, error) ==
    IF NoError(error) THEN [h EXCEPT !.objs[self].fields["id"] = Undef]
    ELSE h

\* destroyDone clearing the dirty state
destroyDone_ClearsDirty(h, self, error) == _clearDirty(h, self)

\* callback given to data.destroy
destroyDone(h, self, error) == h

\* Dispatch leaving the creation to the save that invoked data.create
\* first and is still waiting for it
Dispatch_Serialised(h, self) ==
    IF NotNull(h.objs[self].fields["id"])
       \/ \E s \in DOMAIN calls : /\ calls[s].op = "save"
                                  /\ calls[s].self = self
                                  /\ calls[s].stage = "adapter"
                                  /\ calls[s].invoked = <<"create">>
    THEN "update" ELSE "create"

\* updateDone clearing only the entries that are still what they were when
\* the adapter operation was invoked
updateDone_KeepsLaterChanges(h, self, error) ==
    IF NoError(error) /\ ~\E s \in DOMAIN calls :
                              /\ calls[s].self = self
                              /\ "setAfter" \in DOMAIN calls[s]
    THEN _clearDirty(h, self) ELSE h

\* Dispatch choosing create for every save
Dispatch_AlwaysCreate(h, self) == "create"

\* Dispatch with the test on id inverted
Dispatch_Inverted(h, self) ==
    IF NotNull(h.objs[self].fields["id"]) THEN "create" ELSE "update"

\* the branch save takes once validation passed
Dispatch(h, self) ==
    IF NotNull(h.objs[self].fields["id"]) THEN "update" ELSE "create"

\* updateDone clearing the dirty state whatever the adapter reported
updateDone_AlwaysClears(h, self, error) == _clearDirty(h, self)

\* updateDone that never clears the dirty state
updateDone_NeverClears(h, self, error) == h

\* updateDone stamping refreshedAt as fetch does
updateDone_StampsRefreshedAt(h, self, error) ==
    IF NoError(error) THEN _clearDirty(Refresh(h, self), self) ELSE h

\* callback given to data.update
updateDone(h, self, error) ==
    IF NoError(error) THEN _clearDirty(h, self) ELSE h

\* createError reporting a missing id whatever the adapter reported
createError_MasksAdapterError(h, self, error) ==
    IF ~NotNull(h.objs[self].fields["id"]) THEN BadImplementation ELSE error

\* createError without the test that create left an id
createError_NoIdCheck(h, self, error) == error

\* the error the callback given to data.create passes on
createError(h, self, error) ==
    IF NoError(error) /\ ~NotNull(h.objs[self].fields["id"])
    THEN BadImplementation
    ELSE error

\* callback given to data.create
createDone(h, self, error) ==
    IF NoError(createError(h, self, error)) THEN _clearDirty(h, self) ELSE h

\* heap after the adapter's callback ran, and the error passed to the caller
AdapterDone(h, self, via, error) ==
    CASE via = "fetch" -> fetchDone(h, self, error)
      [] via = "destroy" -> destroyDone(h, self, error)
      [] via = "update" -> updateDone(h, self, error)
      [] via = "create" -> createDone(h, self, error)

CallbackError(h, self, via, error) ==
    IF via = "create" THEN createError(h, self, error) ELSE error

---------------------------------------------------------------------------
(* State *)

\* calls in flight: the slots of the save/fetch/destroy calls that have not
\* completed yet
Slots == {"a", "b"}

\* the part of an entity a call must leave alone when it fails
Snapshot(h, self) == [_dirtyFields |-> h.objs[self]._dirtyFields,
                      refreshedAt |-> h.objs[self].refreshedAt,
                      id |-> h.objs[self].fields["id"]]
NoSnapshot == [_dirtyFields |-> [ref |-> Undef, m |-> EmptyMap],
               refreshedAt |-> Undef, id |-> Undef]

\* a call record:
\*   op       save, fetch or destroy ("idle" for a free slot)
\*   stage    "validate": validate was called and has not called back
\*            "failed":   validation failed, the tick that reports it is queued
\*            "adapter":  the adapter operation was invoked and has not
\*                        called back
\*   invoked  the adapter operations this call invoked, in order
\*   model    the first argument those operations received
\*   wasNew   isNew() when save chose between create and update
\*   errors   the list validate reported
\*   pre      the entity's dirty state and refreshedAt when the call was made
\*   touched  whether anything changed the entity since then
\*   lostId   whether the entity's id was removed since data.update was
\*            invoked
\*   given    the first argument the caller passed: an options object, the
\*            callback when the caller left options out, or nothing
\*   options  the second argument the adapter operation received
\*   newAtCall  isNew() when save was called, kept until save chose between
\*            create and update
\*   lateId   whether the entity had no id when save was called and had one
\*            when save chose between create and update
\*   validates  how many times the call invoked validate
\*   cbs      how many times the call invoked the caller's callback
\*   turn     "call" while the code of the call runs before the public
\*            method returned, "later" once it runs in a later turn
\*   after    for a save made right when a save of the entity that chose
\*            create completed, how that one ended: "created" without
\*            error, "unset" with create reporting success and no id set,
\*            "failed" with an error of the adapter
\*   setAfter the latest set(name, value) that changed the entity after
\*            the save invoked data.create or data.update; only the
\*            records of such saves have it, and only for an application
\*            that observes calls in flight
Idle == [op |-> "idle", self |-> "p", stage |-> "none", invoked |-> <<>>,
         model |-> "none", wasNew |-> FALSE, errors |-> <<>>,
         pre |-> NoSnapshot, touched |-> FALSE, lostId |-> FALSE,
         given |-> Undef,
         options |-> Undef, newAtCall |-> FALSE, lateId |-> FALSE,
         validates |-> 0,
         cbs |-> 0, turn |-> "call", after |-> "none"]

\* what the application passes first to save, fetch and destroy: an options
\* object, the callback, or nothing; and what it passes second
FirstArgs == {"o1", "function", Undef}
SecondArgs == {"function", Undef}

\* Options leaving options absent when the caller passed only a callback
Options_KeepsAbsent(options) ==
    IF options = "function" THEN Undef ELSE options

\* if (typeof options === 'function') { callback = options; options = {}; }
Options(options) ==
    IF options = "function" THEN "{}" ELSE options
Callback(options, callback) ==
    IF options = "function" THEN options ELSE callback

\* whether the call of record c, given callback as second argument, has a
\* callback to invoke
HasCallback(c, callback) == Callback(c.given, callback) # Undef

\* how the save of the entity that completed in the latest step ended, for
\* an application that observes repeated saves
After(self, op) ==
    IF /\ "saves" \in app.observe /\ op = "save"
       /\ last.kind \in {"callback", "done"} /\ last.call.op = "save"
       /\ last.call.self = self /\ last.call.invoked = <<"create">>
    THEN IF NoError(last.error) THEN "created"
         ELSE IF NoError(last.reported) THEN "unset" ELSE "failed"
    ELSE "none"

NewCall(h, self, op, options) ==
    [Idle EXCEPT !.op = op, !.self = self, !.pre = Snapshot(h, self),
                 !.given = options, !.after = After(self, op)]

\* this.data[operation](this, options, callback)
Invoke(c, operation) == [c EXCEPT !.stage = "adapter",
                                  !.invoked = Append(@, operation),
                                  !.model = c.self,
                                  !.options = Options(c.given),
                                  !.newAtCall = FALSE]

\* process.nextTick(function () {...}): the function runs in a later turn
NextTick_RunsAtOnce(c) == c

NextTick(c) == [c EXCEPT !.turn = "later"]

\* Called invoking the callback a second time
Called_Twice(c) == [c EXCEPT !.cbs = @ + 2]

\* callback(error)
Called(c) == [c EXCEPT !.cbs = @ + 1]

\* this.validate(function (errors) {...})
Validating(h, c) == [c EXCEPT !.stage = "validate", !.validates = @ + 1,
                              !.newAtCall = isNew(h, c.self)]

\* Validated leaving a validation failure unreported: no tick is queued
Validated_NeverReports(h, c, errors) ==
    IF Len(errors) > 0
    THEN [c EXCEPT !.stage = "none", !.errors = errors]
    ELSE [Invoke(c, Dispatch(h, c.self)) EXCEPT
             !.wasNew = isNew(h, c.self),
             !.lateId = c.newAtCall /\ ~isNew(h, c.self)]

\* Validated without the return that ends the validation-failure branch
Validated_FallsThrough(h, c, errors) ==
    IF Len(errors) > 0
    THEN [NextTick(c) EXCEPT !.stage = "failed", !.errors = errors,
                   !.invoked = Append(@, Dispatch(h, c.self)),
                   !.model = c.self]
    ELSE [Invoke(c, Dispatch(h, c.self)) EXCEPT
             !.wasNew = isNew(h, c.self),
             !.lateId = c.newAtCall /\ ~isNew(h, c.self)]

\* Validated choosing between create and update from what isNew() was when
\* save was called
Validated_DispatchAtCall(h, c, errors) ==
    IF Len(errors) > 0
    THEN [NextTick(c) EXCEPT !.stage = "failed", !.errors = errors]
    ELSE [Invoke(c, IF c.newAtCall THEN "create" ELSE "update") EXCEPT
             !.wasNew = isNew(h, c.self),
             !.lateId = c.newAtCall /\ ~isNew(h, c.self)]

\* the callback save hands to validate
Validated(h, c, errors) ==
    IF Len(errors) > 0
    THEN [NextTick(c) EXCEPT !.stage = "failed", !.errors = errors]
    ELSE [Invoke(c, Dispatch(h, c.self)) EXCEPT
             !.wasNew = isNew(h, c.self),
             !.lateId = c.newAtCall /\ ~isNew(h, c.self)]

\* the call record of a step that neither completed a call nor threw
NoCall == [op |-> "idle"]

\* what the latest step did: its kind; for a constructor call the defaults
\* and properties it was given, whether a callback reached an init hook
\* and how many times the constructor invoked it; for a call that
\* completed or threw its record, the error the adapter reported, the
\* error passed to the caller's callback or thrown, whether a callback was
\* supplied, whether the adapter called back before it returned, and the
\* entity's dirty state and refreshedAt when the completing step began;
\* for a set, a query, an on or an emit the application observes, the
\* entity as it was before the step and what the step returned; kind is
\* "crash" when a derivation of the application's types threw
NoLast == [kind |-> "none", defaults |-> <<>>, arg |-> <<>>, call |-> NoCall,
           reported |-> Value(Undef), error |-> Value(Undef), cb |-> FALSE,
           adapterSync |-> FALSE, before |-> NoSnapshot,
           was |-> <<>>, result |-> <<>>]

\* the application under study:
\*   names      the field names it uses
\*   firstArgs  what it passes first to save, fetch and destroy
\*   observe    what it observes: "fields" for each set and each query
\*              (keeping what the entity was before the step), "saves" for
\*              a save made right when the previous save completes,
\*              "flight" for a set made while the adapter operation of a
\*              save is outstanding
\*   uses       what it does with an entity it constructed: "fields" for
\*              set and the queries, "assigns" for assignments that bypass
\*              set or reach it through a setter, "calls" for save, fetch
\*              and destroy, "events" for on and emit
\*   chain      the derivations that made the type, when the application
\*              tells them apart
Plain == [names |-> Names, firstArgs |-> {"o1"}, observe |-> {},
          uses |-> {"fields", "assigns", "calls"}, chain |-> <<>>]

\* nothing constructed, no call made; the type and the application under
\* study are fixed from the start
InitOf(types, names, firstArgs) ==
    /\ type \in types
    /\ overlap = FALSE
    /\ app = [Plain EXCEPT !.names = names, !.firstArgs = firstArgs]
    /\ heap = [objs |-> EmptyMap, EMPTY_DIRTY |-> EmptyMap]
    /\ calls = [s \in Slots |-> Idle]
    /\ last = NoLast

\* an application that only registers handlers and emits events, on an
\* entity of the root type or of a type derived with no overrides; another
\* entity of the type exists from the start, with or without a handler
Others == {"q"}
EventsChains == {<<>>, <<NoOverrides>>}
InitEvents ==
    /\ \E chain \in EventsChains :
          /\ type = TypeOf(Derive(chain))
          /\ app = [Plain EXCEPT !.names = {}, !.uses = {"events"},
                                 !.chain = chain]
    /\ overlap = FALSE
    /\ \E q \in Others, f \in Handlers, n \in 0..1 :
          heap = LET h == New([objs |-> EmptyMap, EMPTY_DIRTY |-> EmptyMap],
                              q, type, <<>>, <<>>, Undef)
                 IN  IF n = 0 \/ ~type.emitter THEN h
                     ELSE on(h, q, "foo", f)
    /\ calls = [s \in Slots |-> Idle]
    /\ last = NoLast

\* the applications under study: one that sets fields and makes calls, one
\* that uses events
Init == InitOf(Types, Names, {"o1"}) \/ InitEvents

Live == DOMAIN heap.objs

InFlight == {s \in Slots : calls[s].op # "idle"}
FreeSlot == IF calls["a"].op = "idle" THEN "a" ELSE "b"
\* the application starts a call while another is in flight only when it
\* overlaps calls
MayCall == /\ "calls" \in app.uses
           /\ InFlight = {} \/ (overlap /\ InFlight # Slots)

\* mark the calls in flight on every entity that h2 changed
Touch(cs, h2) ==
    [s \in Slots |->
        IF cs[s].op # "idle" /\ h2.objs[cs[s].self] # heap.objs[cs[s].self]
        THEN [cs[s] EXCEPT !.touched = TRUE, !.pre = NoSnapshot,
                           !.lostId = @ \/ (cs[s].invoked = <<"update">>
                                            /\ isNew(h2, cs[s].self))]
        ELSE cs[s]]

\* new Type(properties, callback), Type having the given defaults record
Construct(self, defaults, properties, callback) ==
    /\ self \notin Live /\ last.kind # "crash"
    /\ BagKeys(defaults) \cup BagKeys(properties) \subseteq app.names
    /\ heap' = New(heap, self, type, defaults, properties, callback)
    /\ last' = [NoLast EXCEPT !.kind = "construct", !.defaults = defaults,
                              !.arg = properties,
                              !.cb = callback # Undef /\ type.init # <<>>,
                              !.result = <<CallbacksByModel(callback)>>]
    /\ UNCHANGED <<type, overlap, app, calls>>

\* note on the saves of the entity whose adapter operation is outstanding
\* the set that h2 results from
Noted(cs, h2, self, name, value) ==
    [s \in Slots |->
        IF /\ "flight" \in app.observe /\ h2 # heap
           /\ cs[s].op = "save" /\ cs[s].stage = "adapter"
           /\ cs[s].self = self
        THEN [setAfter |-> <<name, value>>] @@ cs[s]
        ELSE cs[s]]

\* entity.set(name, value), called by the application or by an adapter
Set(self, name, value) ==
    /\ self \in Live /\ name \in app.names /\ "fields" \in app.uses
    /\ heap' = set(heap, self, name, value)
    /\ calls' = Noted(Touch(calls, heap'), heap', self, name, value)
    /\ last' = IF "fields" \in app.observe
               THEN [NoLast EXCEPT !.kind = "set",
                                   !.arg = << <<name, value>> >>,
                                   !.was = heap.objs[self]]
               ELSE [NoLast EXCEPT !.kind = IF Get(heap, self, name) = value
                                            THEN "setSame" ELSE "step"]
    /\ UNCHANGED <<type, overlap, app>>

\* entity.set(bag), called by the application or by an adapter
SetBag(self, bag) ==
    /\ self \in Live /\ BagKeys(bag) \subseteq app.names
    /\ "fields" \in app.uses
    /\ heap' = setBag(heap, self, bag)
    /\ calls' = Touch(calls, heap')
    /\ last' = IF "fields" \in app.observe
               THEN [NoLast EXCEPT !.kind = "setBag", !.arg = bag,
                                   !.was = heap.objs[self]]
               ELSE [NoLast EXCEPT !.kind = "step"]
    /\ UNCHANGED <<type, overlap, app>>

\* entity.id = value: the assignment an adapter's create makes
AssignId(self, value) ==
    /\ self \in Live /\ "assigns" \in app.uses
    /\ heap' = [heap EXCEPT !.objs[self].fields["id"] = value]
    /\ calls' = Touch(calls, heap')
    /\ last' = [NoLast EXCEPT !.kind = "step"]
    /\ UNCHANGED <<type, overlap, app>>

\* entity.name = value on a type that declares the accessor: the setter
\* runs this.set('_name', value)
AssignAccessor(self, name, value) ==
    /\ self \in Live /\ name \in type.accessors /\ "assigns" \in app.uses
    /\ heap' = set(heap, self, Backing(name), value)
    /\ calls' = Touch(calls, heap')
    /\ last' = [NoLast EXCEPT !.kind = IF Get(heap, self, name) = value
                                       THEN "step" ELSE "assign"]
    /\ UNCHANGED <<type, overlap, app>>

\* Queried allocating the dirty mapping of an entity that has none
Queried_Allocates(h, self) ==
    IF ~hasChanged(h, self) THEN FreshDirty(h, self) ELSE h

\* what hasChanged() and changed() leave of the heap: neither assigns
Queried(h, self) == h

\* entity.hasChanged() and entity.changed(), called by the application or
\* by an adapter
Query(self) ==
    /\ self \in Live /\ "fields" \in app.uses
    /\ heap' = Queried(heap, self)
    /\ calls' = Touch(calls, heap')
    /\ last' = IF "fields" \in app.observe
               THEN [NoLast EXCEPT !.kind = "query",
                                   !.was = heap.objs[self],
                                   !.result = <<hasChanged(heap, self),
                                                changed(heap, self)>>]
               ELSE last
    /\ UNCHANGED <<type, overlap, app>>

\* entity.on(eventName, handler); a type without the member throws
On(self, eventName, handler) ==
    /\ self \in Live /\ "events" \in app.uses
    /\ Len(heap.objs[self]._events[eventName]) < MaxHandlers
    /\ heap' = IF type.emitter THEN on(heap, self, eventName, handler)
               ELSE heap
    /\ last' = IF type.emitter
               THEN [NoLast EXCEPT !.kind = "on",
                                   !.was = heap.objs[self],
                                   !.result = <<eventName, handler>>]
               ELSE [NoLast EXCEPT !.kind = "throw", !.call = Idle,
                                   !.error = TypeError]
    /\ UNCHANGED <<type, overlap, app, calls>>

\* entity.emit(eventName, args); a type without the member throws
Emit(self, eventName, args) ==
    /\ self \in Live /\ "events" \in app.uses
    /\ last' = IF type.emitter
               THEN [NoLast EXCEPT !.kind = "emit",
                                   !.was = heap.objs[self],
                                   !.result = <<eventName, args,
                                                emit(heap, self, eventName,
                                                     args)>>]
               ELSE [NoLast EXCEPT !.kind = "throw", !.call = Idle,
                                   !.error = TypeError]
    /\ UNCHANGED <<type, overlap, app, calls, heap>>

\* how an adapter operation answers when it is invoked: it calls back with
\* error before it returns (sync), or it returns and calls back in a later
\* turn; the operations of the default data record always defer
\* (process.nextTick)
Deferred == [sync |-> FALSE, error |-> Value(Undef)]
Answers(t) == {Deferred} \cup
              (IF t.data = "prompt"
               THEN [sync : {TRUE}, error : AdapterResults] ELSE {})

\* the adapter operation whose callback is outstanding
Via(c) == c.invoked[Len(c.invoked)]

\* what the step in which the adapter calls back leaves in last
Answered(h, c, error, sync, callback) ==
    [NoLast EXCEPT !.kind = IF HasCallback(c, callback) THEN "callback"
                            ELSE "done",
                   !.call = IF HasCallback(c, callback) THEN Called(c) ELSE c,
                   !.cb = HasCallback(c, callback), !.reported = error,
                   !.adapterSync = sync,
                   !.before = Snapshot(h, c.self),
                   !.error = CallbackError(h, c.self, Via(c), error)]

\* the rest of the turn in which the call reached c: an adapter that
\* answers at once completes the call before the turn ends
Settle(h, c, answer, callback) ==
    IF c.stage = "adapter" /\ Via(c) \in type.missing
    THEN \* this.data[operation] is undefined: the call of it throws
         [heap |-> h, call |-> Idle,
          last |-> [NoLast EXCEPT !.kind = "throw", !.call = c,
                                  !.error = TypeError,
                                  !.before = Snapshot(h, c.self)]]
    ELSE IF c.stage = "adapter" /\ answer.sync
    THEN [heap |-> AdapterDone(h, c.self, Via(c), answer.error),
          call |-> Idle,
          last |-> Answered(h, c, answer.error, TRUE, callback)]
    ELSE [heap |-> h, call |-> c,
          last |-> [NoLast EXCEPT !.kind = "step"]]

\* the second argument matters to the step only when the step invokes the
\* callback, and only when the first argument is not the callback
Relevant(options, answer, callback) ==
    callback # Undef => answer.sync /\ options # "function"

\* entity.fetch(options, callback)
Fetch(self, options, callback, answer) ==
    /\ self \in Live /\ MayCall /\ answer \in Answers(type)
    /\ Relevant(options, answer, callback)
    /\ LET b == NewCall(heap, self, "fetch", options)
           c == Invoke(b, "fetch")
           r == Settle(heap, c, answer, callback)
       IN  /\ heap' = r.heap
           /\ calls' = Touch([calls EXCEPT ![FreeSlot] = r.call], heap')
           /\ last' = r.last
    /\ UNCHANGED <<type, overlap, app>>

\* entity.destroy(options, callback)
Destroy(self, options, callback, answer) ==
    /\ self \in Live /\ MayCall /\ answer \in Answers(type)
    /\ Relevant(options, answer, callback)
    /\ LET b == NewCall(heap, self, "destroy", options)
           c == Invoke(b, "destroy")
           r == Settle(heap, c, answer, callback)
       IN  /\ heap' = r.heap
           /\ calls' = Touch([calls EXCEPT ![FreeSlot] = r.call], heap')
           /\ last' = r.last
    /\ UNCHANGED <<type, overlap, app>>

\* entity.save(options, callback); validate calls back in a later turn
\* (sync = FALSE) or, when overridden, possibly before returning (sync = TRUE)
Save(self, options, callback, sync, errors, answer) ==
    /\ self \in Live /\ MayCall /\ answer \in Answers(type)
    /\ type.validate = "default" => ~sync
    /\ ~sync => errors = <<>>
    /\ answer.sync => sync /\ errors = <<>>
    /\ Relevant(options, answer, callback)
    /\ LET b == Validating(heap, NewCall(heap, self, "save", options))
           c == IF sync THEN Validated(heap, b, errors) ELSE b
           r == Settle(heap, c, answer, callback)
       IN  /\ heap' = r.heap
           /\ calls' = Touch([calls EXCEPT ![FreeSlot] = r.call], heap')
           /\ last' = r.last
    /\ UNCHANGED <<type, overlap, app>>

\* validate invokes, in a later turn, the callback save gave it
ValidateReturn(s, callback, errors, answer) ==
    /\ calls[s].stage = "validate" /\ answer \in Answers(type)
    /\ type.validate = "default" => errors = <<>>
    /\ answer.sync => errors = <<>>
    /\ Relevant(calls[s].given, answer, callback)
    /\ LET b == NextTick(calls[s])
           c == Validated(heap, b, errors)
           r == Settle(heap, c, answer, callback)
       IN  /\ heap' = r.heap
           /\ calls' = Touch([calls EXCEPT ![s] = r.call], heap')
           /\ last' = r.last
    /\ UNCHANGED <<type, overlap, app>>

\* the tick save queued on a validation failure:
\* callback({ validationErrors: errors }), with no test that callback is
\* there; an adapter operation the call invoked stays outstanding
ValidationFailed(s, callback) ==
    /\ calls[s].stage = "failed"
    /\ calls[s].given = "function" => callback = Undef
    /\ LET c == calls[s]
           d == IF HasCallback(c, callback) THEN Called(c) ELSE c
       IN  /\ calls' = [calls EXCEPT ![s] =
                           IF c.invoked = <<>> THEN Idle
                           ELSE [d EXCEPT !.stage = "adapter"]]
           /\ last' = [NoLast EXCEPT
                          !.kind = IF HasCallback(c, callback) THEN "callback"
                                   ELSE "throw",
                          !.call = d, !.cb = HasCallback(c, callback),
                          !.before = Snapshot(heap, c.self),
                          !.error = ValidationError(c.errors)]
    /\ UNCHANGED <<type, overlap, app, heap>>

\* the adapter operation invokes, in a later turn, the callback it was
\* given: ...; callback && callback(error)
AdapterReturn(s, callback, error) ==
    /\ calls[s].stage = "adapter"
    /\ calls[s].given = "function" => callback = Undef
    /\ error \in (IF type.data = "default" THEN {NotImplemented}
                  ELSE AdapterResults)
    /\ LET c == NextTick(calls[s])
       IN  /\ heap' = AdapterDone(heap, c.self, Via(c), error)
           /\ calls' = Touch([calls EXCEPT ![s] = Idle], heap')
           /\ last' = Answered(heap, c, error, FALSE, callback)
    /\ UNCHANGED <<type, overlap, app>>

Next ==
    \/ \E self \in Entities \ Live, d \in DefaultsChoices, b \in Bags,
          callback \in SecondArgs : Construct(self, d, b, callback)
    \/ \E self \in Entities, pr \in Pairs : Set(self, pr[1], pr[2])
    \/ \E self \in Entities, b \in SetBags : SetBag(self, b)
    \/ \E self \in Entities, v \in ValsOf("id") : AssignId(self, v)
    \/ \E self \in Entities, v \in ValsOf("name") :
          AssignAccessor(self, "name", v)
    \/ \E self \in Entities : Query(self)
    \/ \E self \in Entities, n \in EventNames, f \in Handlers :
          On(self, n, f)
    \/ \E self \in Entities, n \in EventNames, args \in EventArgs :
          Emit(self, n, args)
    \/ \E self \in Entities, options \in app.firstArgs, callback \in SecondArgs,
          answer \in Answers(type) : Fetch(self, options, callback, answer)
    \/ \E self \in Entities, options \in app.firstArgs, callback \in SecondArgs,
          answer \in Answers(type) : Destroy(self, options, callback, answer)
    \/ \E self \in Entities, options \in app.firstArgs, callback \in SecondArgs,
          sync \in BOOLEAN, errors \in ErrorLists, answer \in Answers(type) :
          Save(self, options, callback, sync, errors, answer)
    \/ \E s \in Slots, callback \in SecondArgs, errors \in ErrorLists,
          answer \in Answers(type) :
          ValidateReturn(s, callback, errors, answer)
    \/ \E s \in Slots, callback \in SecondArgs : ValidationFailed(s, callback)
    \/ \E s \in Slots, callback \in SecondArgs,
          error \in AdapterResults \cup {NotImplemented} :
          AdapterReturn(s, callback, error)

Spec == Init /\ [][Next]_vars

\* the application also calls save, fetch and destroy with a callback alone
FewNames == {"id", "name"}
OptionsTypes == {t \in AllTypes : t.accessors = {"name"}
                                  /\ t.validate = "custom"
                                  /\ t.data = "custom"}
InitOptions == InitOf(OptionsTypes, FewNames, FirstArgs) \/ InitEvents
SpecOptions == InitOptions /\ [][Next]_vars

\* a second entity of the type exists from the start; the application
\* constructs and uses the first and leaves the second alone
OtherBags == { <<>>, << <<"name", "v1">> >>,
               << <<"id", "v1">>, <<"name", "v1">> >> }
InitTwo ==
    \/ InitEvents
    \/ /\ type \in OptionsTypes
       /\ overlap = FALSE
       /\ app = [Plain EXCEPT !.names = FewNames]
       /\ \E q \in Others, b \in OtherBags :
             heap = New([objs |-> EmptyMap, EMPTY_DIRTY |-> EmptyMap],
                        q, type, <<>>, b, Undef)
       /\ calls = [s \in Slots |-> Idle]
       /\ last = NoLast
SpecTwo == InitTwo /\ [][Next]_vars

\* the adapter operations may call back before they return
PromptTypes == {t \in AllTypes : t.accessors = {"name"}
                                 /\ t.validate = "custom"
                                 /\ t.data = "prompt"}
InitPrompt == InitOf(PromptTypes, FewNames, {"o1"}) \/ InitEvents
SpecPrompt == InitPrompt /\ [][Next]_vars

\* the application observes each set and each query
FieldNames == {"id", "name", "foo"}
FieldsTypes == {t \in AllTypes : t.accessors = {"name"}
                                 /\ t.validate = "custom"
                                 /\ t.data = "custom"}
InitFields ==
    \/ InitEvents
    \/ /\ type \in FieldsTypes
       /\ overlap = FALSE
       /\ app = [Plain EXCEPT !.names = FieldNames, !.observe = {"fields"}]
       /\ heap = [objs |-> EmptyMap, EMPTY_DIRTY |-> EmptyMap]
       /\ calls = [s \in Slots |-> Idle]
       /\ last = NoLast
SpecFields == InitFields /\ [][Next]_vars

\* the application observes a save made right when the previous one
\* completes
InitRepeat ==
    \/ InitEvents
    \/ /\ type \in OptionsTypes
       /\ overlap = FALSE
       /\ app = [Plain EXCEPT !.names = FewNames, !.observe = {"saves"}]
       /\ heap = [objs |-> EmptyMap, EMPTY_DIRTY |-> EmptyMap]
       /\ calls = [s \in Slots |-> Idle]
       /\ last = NoLast
SpecRepeat == InitRepeat /\ [][Next]_vars

\* the application derives types in chains, each step with or without an
\* init hook, and only constructs entities
InitOverrides == {[NoOverrides EXCEPT !.init = i] : i \in {Undef, "own", "super"}}
InitChains == UNION {[1..n -> InitOverrides] : n \in 1..MaxDepth}
InitChain ==
    /\ \E chain \in InitChains :
          /\ type = TypeOf(Derive(chain))
          /\ app = [Plain EXCEPT !.names = FieldNames, !.uses = {},
                                 !.chain = chain]
    /\ overlap = FALSE
    /\ heap = [objs |-> EmptyMap, EMPTY_DIRTY |-> EmptyMap]
    /\ calls = [s \in Slots |-> Idle]
    /\ last = NoLast

\* the application derives a type whose data record has only some of the
\* four operations
PartialOps == {{"create"}, {"create", "update"}, {"fetch", "destroy"}}
PartialChains ==
    {<<[NoOverrides EXCEPT !.validate = "custom", !.name = "accessor",
                           !.data = Member("custom", <<>>, ops)]>> :
        ops \in PartialOps}
InitPartial ==
    /\ \E chain \in PartialChains :
          /\ type = TypeOf(Derive(chain))
          /\ app = [Plain EXCEPT !.names = FewNames, !.chain = chain]
    /\ overlap = FALSE
    /\ heap = [objs |-> EmptyMap, EMPTY_DIRTY |-> EmptyMap]
    /\ calls = [s \in Slots |-> Idle]
    /\ last = NoLast

\* the application derives a chain of types whose levels each override one
\* member, or none, and constructs entities of the last type; a derive
\* that throws ends the program
PrecedenceOverrides ==
    {NoOverrides,
     [NoOverrides EXCEPT !.name = "accessor"],
     [NoOverrides EXCEPT !.name = "function"],
     [NoOverrides EXCEPT !.validate = "custom"],
     [NoOverrides EXCEPT !.init = "own"],
     [NoOverrides EXCEPT !.data = Member("custom", <<>>, Ops)],
     [NoOverrides EXCEPT !.data = Member("custom", <<>>, {"create"})]}
PrecedenceChains ==
    UNION {[1..n -> PrecedenceOverrides] : n \in 1..MaxDepth}
InitPrecedence ==
    /\ \E chain \in PrecedenceChains :
          /\ type = TypeOf(Derive(chain))
          /\ app = [Plain EXCEPT !.names = {"foo"}, !.uses = {},
                                 !.chain = chain]
          /\ last = IF Derive(chain).threw
                    THEN [NoLast EXCEPT !.kind = "crash", !.error = TypeError]
                    ELSE NoLast
    /\ overlap = FALSE
    /\ heap = [objs |-> EmptyMap, EMPTY_DIRTY |-> EmptyMap]
    /\ calls = [s \in Slots |-> Idle]

InitDerive == InitChain \/ InitPartial \/ InitEvents
SpecDerive == InitDerive /\ [][Next]_vars

\* the application writes fields through set only, on a type without
\* accessors and with names that have no leading underscore; its adapters
\* give an entity its id through set as well
TrackedTypes == {t \in Types : t.accessors = {}}
InitTracked ==
    /\ type \in TrackedTypes
    /\ overlap = FALSE
    /\ app = [Plain EXCEPT !.names = FieldNames, !.uses = {"fields", "calls"}]
    /\ heap = [objs |-> EmptyMap, EMPTY_DIRTY |-> EmptyMap]
    /\ calls = [s \in Slots |-> Idle]
    /\ last = NoLast
\* an application that only sets and assigns fields, on a type with the
\* accessor
InitAssigns ==
    /\ type \in FieldsTypes
    /\ overlap = FALSE
    /\ app = [Plain EXCEPT !.names = FewNames, !.uses = {"fields", "assigns"}]
    /\ heap = [objs |-> EmptyMap, EMPTY_DIRTY |-> EmptyMap]
    /\ calls = [s \in Slots |-> Idle]
    /\ last = NoLast
\* the application makes a call while another is in flight; the only
\* field it and its adapters set is id
InitOverlap ==
    /\ type \in FieldsTypes
    /\ overlap = TRUE
    /\ app = [Plain EXCEPT !.names = {"id"}, !.uses = {"fields", "calls"}]
    /\ heap = [objs |-> EmptyMap, EMPTY_DIRTY |-> EmptyMap]
    /\ calls = [s \in Slots |-> Idle]
    /\ last = NoLast
\* the application observes what it sets while a save is with the adapter
InitFlight ==
    /\ type \in FieldsTypes
    /\ overlap = FALSE
    /\ app = [Plain EXCEPT !.names = {"id", "foo"}, !.observe = {"flight"},
                           !.uses = {"fields", "calls"}]
    /\ heap = [objs |-> EmptyMap, EMPTY_DIRTY |-> EmptyMap]
    /\ calls = [s \in Slots |-> Idle]
    /\ last = NoLast

SpecTracked == (InitTracked \/ InitAssigns \/ InitEvents) /\ [][Next]_vars
\* the application passes its callback first, on a type with the default
\* validate and data, with its own, or with a data record that has only
\* some of the operations; validate and the adapter operations call back
\* eventually, and the ticks the framework queues run
LiveTypes == {t \in Types : t.accessors = {}}
InitLive ==
    \/ InitOf(LiveTypes, {"id"}, {"function"})
    \/ /\ \E chain \in PartialChains :
              /\ type = TypeOf(Derive(chain))
              /\ app = [Plain EXCEPT !.names = {"id"},
                                     !.firstArgs = {"function"},
                                     !.uses = {"fields", "calls"},
                                     !.chain = chain]
       /\ overlap = FALSE
       /\ heap = [objs |-> EmptyMap, EMPTY_DIRTY |-> EmptyMap]
       /\ calls = [s \in Slots |-> Idle]
       /\ last = NoLast
ValidateCallsBack ==
    \E s \in Slots, callback \in SecondArgs, errors \in ErrorLists,
       answer \in Answers(type) : ValidateReturn(s, callback, errors, answer)
TickRuns ==
    \E s \in Slots, callback \in SecondArgs : ValidationFailed(s, callback)
AdapterCallsBack ==
    \E s \in Slots, callback \in SecondArgs,
       error \in AdapterResults \cup {NotImplemented} :
       AdapterReturn(s, callback, error)
SpecLive ==
    /\ InitLive \/ InitAssigns \/ InitEvents
    /\ [][Next]_vars
    /\ WF_vars(ValidateCallsBack) /\ WF_vars(TickRuns)
    /\ WF_vars(AdapterCallsBack)
SpecPrecedence ==
    (InitPrecedence \/ InitLive \/ InitAssigns \/ InitEvents)
        /\ [][Next]_vars
SpecFlight ==
    (InitOverlap \/ InitFlight \/ InitAssigns \/ InitEvents) /\ [][Next]_vars

---------------------------------------------------------------------------
(* Vocabulary of the properties *)

\* the mapping an object literal denotes
BagAsMap(b) == [k \in BagKeys(b) |-> BagGet(b, k)]
\* the mapping d overlaid with the mapping f
Overlay(d, f) == [k \in (DOMAIN d) \cup (DOMAIN f) |->
                     IF k \in DOMAIN f THEN f[k] ELSE d[k]]
\* no name of the bag starts with an underscore, no value is undefined
PlainBag(b) == \A i \in DOMAIN b : b[i][1] # "_name" /\ b[i][2] # Undef
\* the bag names an accessor together with its backing field
NamesBacking(b) == \E k \in BagKeys(b) :
                      k \in type.accessors /\ Backing(k) \in BagKeys(b)

Constructed == last.kind = "construct"
\* a call completed and the caller's callback ran
CalledBack(op) == last.kind = "callback" /\ last.call.op = op
\* a call completed, with or without a callback
Completed(op) == last.kind \in {"callback", "done"} /\ last.call.op = op
\* e[n] on the entity record e, through the getter when the type declares one
Read(e, n) == IF n \in type.accessors THEN e.fields[Backing(n)]
              ELSE e.fields[n]
\* the dirty mapping of the entity record e, empty when it has none
DirtOf(e) == IF e._dirtyFields.ref = "EMPTY_DIRTY" THEN EmptyMap
             ELSE e._dirtyFields.m
\* the entries the pairs of bag b record on the entity record e: one for
\* each pair whose value differs from the current one
Differing(e, b) == {i \in DOMAIN b : Read(e, b[i][1]) # b[i][2]}
NewEntries(e, b) ==
    [k \in {DirtyName(b[i][1]) : i \in Differing(e, b)} |->
        b[CHOOSE i \in Differing(e, b) : DirtyName(b[i][1]) = k][2]]

---------------------------------------------------------------------------
(* Constructor *)

\* C1 (as stated): an entity constructed with initial fields F that have no
\* id key has hasChanged() true and changed() equal to F, for every F and
\* every type, with or without defaults.
C1_Original ==
    Constructed /\ "id" \notin BagKeys(last.arg) =>
        /\ hasChanged(heap, "p")
        /\ changed(heap, "p") = BagAsMap(last.arg)

\* C1 (amended): when neither the defaults D nor the initial fields F name
\* id or a name with a leading underscore or carry an undefined value,
\* changed() equals D overlaid by F exactly, and hasChanged() is true
\* exactly when that mapping is not empty; so changed() equals F for a
\* non-empty F on a type without defaults.
C1_ChangedIsDefaultsThenFields ==
    Constructed /\ "id" \notin BagKeys(last.arg)
                /\ PlainBag(last.arg) /\ PlainBag(last.defaults) =>
        /\ changed(heap, "p") = Overlay(BagAsMap(last.defaults),
                                        BagAsMap(last.arg))
        /\ hasChanged(heap, "p") <=> (last.arg # <<>> \/ last.defaults # <<>>)

C1_Witness ==
    /\ Constructed /\ "id" \notin BagKeys(last.arg)
    /\ PlainBag(last.arg) /\ PlainBag(last.defaults)
    /\ Len(last.arg) = 2 /\ last.defaults # <<>>
    /\ BagGet(last.arg, "foo") \notin {Undef, BagGet(last.defaults, "foo")}

\* C2 (as stated): an entity constructed with initial fields F that include
\* id has hasChanged() false and changed() empty, and every supplied value
\* is readable on the entity.
C2_Original ==
    Constructed /\ "id" \in BagKeys(last.arg) =>
        /\ ~hasChanged(heap, "p")
        /\ changed(heap, "p") = EmptyMap
        /\ \A k \in BagKeys(last.arg) : Get(heap, "p", k) = BagGet(last.arg, k)

\* C2 (amended): when F carries an id that is neither null nor undefined,
\* hasChanged() is false and changed() is empty whatever else F and the
\* defaults hold, and every supplied value is readable on the entity unless
\* F names an accessor together with its backing field.
C2_IdMeansClean ==
    Constructed /\ NotNull(BagGet(last.arg, "id")) =>
        /\ ~hasChanged(heap, "p")
        /\ changed(heap, "p") = EmptyMap
        /\ ~NamesBacking(last.arg) =>
              \A k \in BagKeys(last.arg) :
                  Get(heap, "p", k) = BagGet(last.arg, k)

C2_Witness ==
    /\ Constructed /\ NotNull(BagGet(last.arg, "id"))
    /\ Len(last.arg) = 2 /\ last.defaults # <<>>
    /\ NotNull(heap.objs["p"].fields["foo"])
    /\ NotNull(heap.objs["p"].fields["name"])

---------------------------------------------------------------------------
(* save *)

\* the dirty state of the entity is the one of the snapshot
SameDirt(snap) == heap.objs["p"]._dirtyFields = snap._dirtyFields
SavesInAdapter == {s \in Slots : calls[s].op = "save"
                                   /\ calls[s].stage = "adapter"}

\* the adapter operations a save that passed validation has invoked: one,
\* create for an entity without id and update for one with id, on the entity
OneDispatch(c) ==
    /\ c.invoked = << IF c.wasNew THEN "create" ELSE "update" >>
    /\ c.model = c.self

\* C3: every save that passes validation invokes exactly one adapter
\* operation, data.create when the entity has no id and data.update when it
\* has one, and passes the entity itself as first argument -- while the
\* adapter runs and when the save has completed.
C3_SaveDispatch ==
    /\ \A s \in SavesInAdapter : OneDispatch(calls[s])
    /\ Completed("save") /\ last.call.stage = "adapter" =>
          OneDispatch(last.call)

C3_Witness ==
    /\ CalledBack("save") /\ last.call.invoked = <<"update">>
    /\ NoError(last.error) /\ ~isNew(heap, "p")

\* C4: when validate reports a non-empty list, the save callback receives
\* an error whose validationErrors is that list, no adapter operation is
\* invoked for the call, and the call leaves the dirty state and
\* refreshedAt as they were before it (whoever else changed the entity in
\* between is not the call's doing).
C4_ValidationGate ==
    /\ \A s \in Slots : calls[s].stage = "failed" =>
          /\ calls[s].invoked = <<>>
          /\ ~calls[s].touched => Snapshot(heap, "p") = calls[s].pre
    /\ CalledBack("save") /\ last.call.stage = "failed" =>
          /\ last.call.errors # <<>>
          /\ "validationErrors" \in last.error.props
          /\ last.error.validationErrors = last.call.errors
          /\ last.call.invoked = <<>>
          /\ Snapshot(heap, "p") = last.before
          /\ ~last.call.touched => Snapshot(heap, "p") = last.call.pre

C4_Witness ==
    /\ CalledBack("save") /\ last.call.stage = "failed"
    /\ Len(last.call.errors) = 2 /\ ~last.call.touched
    /\ hasChanged(heap, "p") /\ heap.objs["p"].refreshedAt # Undef

\* C5: when data.create reports success and the entity still has no id,
\* the save callback receives an error flagged badImplementation that
\* carries no validationErrors, and the dirty state is not cleared.
C5_CreateWithoutId ==
    CalledBack("save") /\ last.call.invoked = <<"create">>
                       /\ NoError(last.reported) /\ isNew(heap, "p") =>
        /\ "badImplementation" \in last.error.props
        /\ "validationErrors" \notin last.error.props
        /\ SameDirt(last.before)
        /\ ~last.call.touched => SameDirt(last.call.pre)

C5_Witness ==
    /\ CalledBack("save") /\ last.call.invoked = <<"create">>
    /\ NoError(last.reported) /\ isNew(heap, "p")
    /\ hasChanged(heap, "p") /\ ~last.call.touched

\* C6: when data.create or data.update reports an error and nothing else
\* touched the entity since save was called, hasChanged() and changed() are,
\* when the save callback runs, what they were before the call.
C6_FailurePreservesDirt ==
    CalledBack("save") /\ last.call.stage = "adapter"
                       /\ ~NoError(last.reported) /\ ~last.call.touched =>
        /\ hasChanged(heap, "p") <=> last.call.pre._dirtyFields # EMPTY_DIRTY
        /\ SameDirt(last.call.pre)

C6_Witness ==
    /\ CalledBack("save") /\ last.call.invoked = <<"update">>
    /\ ~NoError(last.reported) /\ ~last.call.touched
    /\ Cardinality(DOMAIN changed(heap, "p")) = 2

\* the dirty fields are visible to the adapter while it runs
DirtVisibleToAdapter ==
    \A s \in SavesInAdapter : ~calls[s].touched => SameDirt(calls[s].pre)

\* C7 (as stated): when the callback of a save receives no error,
\* hasChanged() is false, changed() is empty and the entity has an id; and
\* during the adapter call the dirty fields are still visible.
C7_Original ==
    /\ DirtVisibleToAdapter
    /\ CalledBack("save") /\ NoError(last.error) =>
          /\ ~hasChanged(heap, "p")
          /\ changed(heap, "p") = EmptyMap
          /\ ~isNew(heap, "p")

\* C7 (amended): when the callback of a save receives no error,
\* hasChanged() is false and changed() is empty, and the entity has an id
\* unless the id was removed while data.update was in flight; during the
\* adapter call the dirty fields are still visible.
C7_CleanAfterSave ==
    /\ DirtVisibleToAdapter
    /\ CalledBack("save") /\ NoError(last.error) =>
          /\ ~hasChanged(heap, "p")
          /\ changed(heap, "p") = EmptyMap
          /\ ~last.call.lostId => ~isNew(heap, "p")

C7_Witness ==
    /\ CalledBack("save") /\ NoError(last.error)
    /\ last.call.invoked = <<"create">>
    /\ last.before._dirtyFields # EMPTY_DIRTY

---------------------------------------------------------------------------
(* fetch *)

\* C8: when the fetch adapter reports no error, refreshedAt is stamped and
\* the dirty state cleared before the caller's callback runs: inside the
\* callback hasChanged() is false and changed() is empty, whatever was
\* dirtied during the fetch.
C8_FetchClears ==
    CalledBack("fetch") /\ NoError(last.error) =>
        /\ heap.objs["p"].refreshedAt \notin {Undef, last.before.refreshedAt}
        /\ ~hasChanged(heap, "p")
        /\ changed(heap, "p") = EmptyMap

C8_Witness ==
    /\ CalledBack("fetch") /\ NoError(last.error)
    /\ last.call.touched /\ last.call.pre = NoSnapshot
    /\ last.before._dirtyFields # EMPTY_DIRTY

\* C9: when the fetch adapter reports an error, fetch changes neither
\* refreshedAt nor the dirty state, and the caller's callback receives that
\* same error value.
C9_FetchErrorChangesNothing ==
    Completed("fetch") /\ ~NoError(last.reported) =>
        /\ Snapshot(heap, "p") = last.before
        /\ ~last.call.touched => Snapshot(heap, "p") = last.call.pre
        /\ last.error = last.reported

C9_Witness ==
    /\ CalledBack("fetch") /\ ~NoError(last.reported)
    /\ ~last.call.touched
    /\ hasChanged(heap, "p") /\ heap.objs["p"].refreshedAt # Undef

---------------------------------------------------------------------------
(* set *)

\* C10: in every reachable state, set(name, v) with v identical to the
\* current value of name changes nothing: no field, no dirty entry, no
\* dirty mapping allocated.
C10_SetSameIsNoOp ==
    \A self \in Live, n \in Names :
        set(heap, self, n, Get(heap, self, n)) = heap

C10_Witness ==
    /\ last.kind = "setSame"
    /\ ~hasChanged(heap, "p")
    /\ NotNull(heap.objs["p"].fields["foo"])

\* the entry set(propertyName, value) records: under dirtyName, with value
Records(h, self, dirtyName, value) ==
    /\ hasChanged(h, self)
    /\ dirtyName \in DOMAIN changed(h, self)
    /\ changed(h, self)[dirtyName] = value

\* C11: after entity.name = v through an accessor whose setter calls
\* set('_name', v), with v different from the current value,
\* changed().name is v, changed() has no _name key and hasChanged() is
\* true; and set on any name with a leading underscore records the entry
\* under the name with exactly one leading underscore removed.
C11_UnderscoreStripping ==
    /\ last.kind = "assign" =>
          /\ Records(heap, "p", "name", Get(heap, "p", "name"))
          /\ "_name" \notin DOMAIN changed(heap, "p")
    /\ \A n \in Underscored : "_" \o DirtyName(n) = n
    /\ \A n \in Names \ Underscored : DirtyName(n) = n
    /\ \A self \in Live, n \in Names \cap Underscored : \A v \in ValsOf(n) :
          Get(heap, self, n) # v =>
              /\ Records(set(heap, self, n, v), self, DirtyName(n), v)
              /\ n \notin DOMAIN changed(set(heap, self, n, v), self)

C11_Witness ==
    /\ last.kind = "assign" /\ Get(heap, "p", "name") = "v1"
    /\ "id" \in DOMAIN changed(heap, "p")

---------------------------------------------------------------------------
(* Adapters *)

Ended == IF last.kind \in {"callback", "done", "throw"} THEN {last.call}
         ELSE {}

\* C13 (as stated): the options value given to save, fetch or destroy is the
\* very value the adapter operation receives, and when the caller omits
\* options (passing the callback in its place) the adapter receives an
\* absent options value.
C13_Original ==
    \A c \in {calls[s] : s \in Slots} \cup Ended :
        c.invoked # <<>> =>
            c.options = (IF c.given = "function" THEN Undef ELSE c.given)

\* C13 (amended): the options value given to save, fetch or destroy is the
\* very value the adapter operation receives; when the caller omits options
\* (passing the callback in its place) the adapter receives a new empty
\* object, and it receives an absent options value only when the caller
\* passed none.
C13_OptionsForwarded ==
    \A c \in {calls[s] : s \in Slots} \cup Ended :
        c.invoked # <<>> =>
            /\ c.given # "function" => c.options = c.given
            /\ c.given = "function" => c.options = "{}"
            /\ c.options = Undef <=> c.given = Undef

C13_Witness ==
    /\ CalledBack("save") /\ last.call.invoked = <<"update">>
    /\ last.call.given = "function" /\ last.call.options = "{}"

\* C14: whatever error value data.create, data.update, data.fetch or
\* data.destroy supplies is the identical value the caller's callback
\* receives; it is never replaced or dropped, including when create fails
\* and id is still absent.
C14_AdapterErrorPassThrough ==
    \A op \in {"save", "fetch", "destroy"} :
        Completed(op) /\ last.call.stage = "adapter" =>
            /\ ~NoError(last.reported) =>
                  last.error = last.reported /\ (last.cb => last.call.cbs = 1)
            /\ last.error # last.reported =>
                  /\ last.call.invoked = <<"create">> /\ isNew(heap, "p")
                  /\ last.error = BadImplementation

C14_Witness ==
    /\ CalledBack("save") /\ last.call.invoked = <<"create">>
    /\ isNew(heap, "p") /\ last.reported = AdapterError
    /\ last.error = AdapterError

\* C15: every call to save, fetch or destroy invokes the caller's callback
\* exactly once, on every path: validation failure, adapter failure,
\* implementation error, success; validate and the adapter operations
\* being taken to call back exactly once.
C15_CallbackExactlyOnce ==
    /\ \A s \in InFlight : calls[s].cbs = 0
    /\ last.kind = "callback" =>
          /\ last.call.cbs = 1
          /\ \A s \in InFlight : calls[s].self # last.call.self
    /\ last.kind \in {"done", "throw"} => last.call.cbs = 0 /\ ~last.cb

C15_Witness ==
    /\ CalledBack("save") /\ last.call.stage = "failed"
    /\ last.call.cbs = 1 /\ InFlight = {}

---------------------------------------------------------------------------
(* Save: validation and dispatch *)

\* the save calls in flight and the one that just completed
Saves == {c \in {calls[s] : s \in Slots} \cup Ended : c.op = "save"}

\* C16: each save call invokes validate exactly once, and chooses between
\* update and create exactly once, at the instant validation passes, from
\* the state of id at that instant: an id assigned after save() was called
\* but before validate completes leads to update, and an id change after
\* the adapter call has started does not cause a second dispatch.
C16_OneValidateOneDispatch ==
    /\ [](\A c \in Saves :
            /\ c.validates = 1
            /\ c.stage = "validate" => c.invoked = <<>>
            /\ c.stage = "adapter" =>
                  /\ c.invoked = <<IF c.wasNew THEN "create" ELSE "update">>
                  /\ c.lateId => c.invoked = <<"update">>
                  /\ c.lostId => c.invoked = <<"update">>)
    /\ [][\A s \in Slots :
            /\ calls'[s].op = "save" /\ calls'[s].stage = "adapter"
               /\ calls[s].stage # "adapter" =>
                  calls'[s].invoked =
                      <<IF isNew(heap, calls'[s].self) THEN "create"
                        ELSE "update">>
            /\ calls[s].stage = "adapter" /\ calls'[s].op # "idle" =>
                  calls'[s].invoked = calls[s].invoked]_vars

C16_Witness ==
    /\ CalledBack("save") /\ last.call.lateId
    /\ last.call.invoked = <<"update">> /\ last.call.validates = 1

\* C17 (as stated): every failure outcome of save, fetch and destroy
\* (validation error, implementation error, not-implemented error, adapter
\* error) is delivered through the completion callback's error parameter
\* and none is raised as an exception in a later turn, whether or not the
\* caller supplied a callback.
C17_FailuresReachCallback ==
    /\ last.kind # "throw"
    /\ last.kind \in {"callback", "done"} /\ ~NoError(last.error) =>
          (last.cb <=> last.kind = "callback")

\* C18: provided each adapter operation defers its callback to a later
\* turn, save never invokes the caller's callback before the save() call
\* returns, whether validate invokes its callback synchronously or
\* asynchronously and whether validation passes or fails.
C18_SaveCallsBackLater ==
    /\ \A s \in InFlight :
          calls[s].op = "save" /\ calls[s].turn = "call" => calls[s].cbs = 0
    /\ CalledBack("save") /\ ~last.adapterSync => last.call.turn = "later"

C18_Witness ==
    /\ type.data = "prompt" /\ CalledBack("save")
    /\ last.call.stage = "failed" /\ last.call.turn = "later"

---------------------------------------------------------------------------
(* refreshedAt *)

\* C20: refreshedAt is absent in every state reachable without a successful
\* fetch: construction, set, save through create or update (successful or
\* failed), destroy and failed fetch never set it; it becomes defined only
\* when a fetch completes without error.
C20_RefreshedAtOnlyByFetch ==
    /\ [](Constructed => heap.objs["p"].refreshedAt = Undef)
    /\ [][\A self \in Live \cap DOMAIN heap'.objs :
            heap'.objs[self].refreshedAt # heap.objs[self].refreshedAt =>
                /\ last'.kind \in {"callback", "done"}
                /\ last'.call.op = "fetch" /\ last'.call.self = self
                /\ NoError(last'.reported)
                /\ heap'.objs[self].refreshedAt # Undef]_vars

C20_Witness ==
    /\ CalledBack("save") /\ last.call.invoked = <<"update">>
    /\ NoError(last.error) /\ heap.objs["p"].refreshedAt = Undef

---------------------------------------------------------------------------
(* Instances *)

\* what the application can see of an entity
Visible(h, self) == [fields |-> h.objs[self].fields,
                     hasChanged |-> hasChanged(h, self),
                     changed |-> changed(h, self),
                     dirty |-> DirtyObject(h, self)]

\* C19: for any two entities and any interleaving of construct, set, save,
\* fetch and destroy on one of them, the other entity's field values,
\* hasChanged() and changed() are unchanged; in particular the shared
\* EMPTY_DIRTY object never acquires a key.
C19_InstanceIsolation ==
    /\ [](heap.EMPTY_DIRTY = EmptyMap)
    /\ [][\A q \in Others \cap Live :
            /\ q \in DOMAIN heap'.objs
            /\ Visible(heap', q) = Visible(heap, q)
            /\ heap'.objs[q] = heap.objs[q]]_vars

C19_Witness ==
    /\ "q" \in Live /\ ~hasChanged(heap, "q") /\ "p" \in Live
    /\ CalledBack("save") /\ last.call.invoked = <<"create">>
    /\ NoError(last.error) /\ last.before._dirtyFields # EMPTY_DIRTY
    /\ ~hasChanged(heap, "p")
---------------------------------------------------------------------------
(* Queries and bag-form set *)

\* the answers <<hasChanged(), changed()>> of an entity nothing ever dirtied
NeverDirtied == <<FALSE, EmptyMap>>
Answer(h, self) == <<hasChanged(h, self), changed(h, self)>>
\* the latest step cleared the dirty state of an entity that may have been
\* dirty: a constructor given an id, a bag-form set with an id key, a fetch
\* or a save that completed without error
JustCleared ==
    \/ Constructed /\ NotNull(BagGet(last.arg, "id"))
    \/ last.kind = "setBag" /\ "id" \in BagKeys(last.arg)
    \/ Completed("fetch") /\ NoError(last.error)
    \/ Completed("save") /\ NoError(last.error)

\* C25: hasChanged() and changed() are pure queries: calling them changes
\* neither the dirty state nor any field; changed() returns the dirty
\* mapping when hasChanged() is true and an empty mapping otherwise; and an
\* entity that was dirtied and then cleared answers both as a never-dirtied
\* entity does.
C25_PureQueries ==
    /\ last.kind = "query" =>
          /\ heap.objs["p"] = last.was
          /\ heap.EMPTY_DIRTY = EmptyMap
          /\ last.result[1] <=> last.was._dirtyFields.ref # "EMPTY_DIRTY"
          /\ last.result[2] = DirtOf(last.was)
          /\ ~last.result[1] => last.result = NeverDirtied
    /\ JustCleared => Answer(heap, "p") = NeverDirtied

C25_Witness ==
    /\ last.kind = "query" /\ last.result = NeverDirtied
    /\ heap.objs["p"].refreshedAt # Undef
    /\ NotNull(heap.objs["p"].fields["foo"])

\* C26: set(bag) applies single-form set to every pair of the bag; if a key
\* of the bag is id the dirty state is cleared after all pairs were
\* applied, so hasChanged() is false afterwards whatever was dirty before
\* and whatever the call dirtied; if no key is id the dirty state
\* afterwards is the prior dirty state plus the pairs that changed a value.
C26_BagSet ==
    last.kind = "setBag" =>
        /\ \A i \in DOMAIN last.arg :
              Get(heap, "p", last.arg[i][1]) = last.arg[i][2]
        /\ "id" \in BagKeys(last.arg) =>
              ~hasChanged(heap, "p") /\ changed(heap, "p") = EmptyMap
        /\ "id" \notin BagKeys(last.arg) =>
              /\ changed(heap, "p") =
                    Overlay(DirtOf(last.was), NewEntries(last.was, last.arg))
              /\ hasChanged(heap, "p") <=>
                    \/ last.was._dirtyFields.ref # "EMPTY_DIRTY"
                    \/ Differing(last.was, last.arg) # {}

C26_Witness ==
    /\ last.kind = "setBag" /\ "id" \in BagKeys(last.arg)
    /\ DOMAIN DirtOf(last.was) = {"name"}
    /\ Differing(last.was, last.arg) = DOMAIN last.arg
    /\ ~hasChanged(heap, "p")

\* some pair of the defaults or of the initial fields carries a value
SetsSomething == \E b \in {last.defaults, last.arg} :
                    \E i \in DOMAIN b : b[i][2] # Undef

\* C27 (as stated): the constructor clears the dirty state after applying
\* defaults and initial fields exactly when initialFields contained an id
\* key, whatever value that key carries; the same condition under which
\* bag-form set clears the dirty state.
C27_Original ==
    /\ Constructed /\ "id" \in BagKeys(last.arg) => ~hasChanged(heap, "p")
    /\ Constructed /\ "id" \notin BagKeys(last.arg) =>
          (hasChanged(heap, "p") <=> SetsSomething)
    /\ last.kind = "setBag" /\ "id" \in BagKeys(last.arg) =>
          ~hasChanged(heap, "p")

\* C27 (amended): the constructor clears the dirty state after applying
\* defaults and initial fields exactly when initialFields carries an id
\* that is neither null nor undefined; bag-form set clears the dirty state
\* whenever the mapping has an id key, whatever its value, so the two
\* differ for an id of null or undefined.
C27_ClearsOnIdValue ==
    /\ Constructed /\ NotNull(BagGet(last.arg, "id")) =>
          ~hasChanged(heap, "p")
    /\ Constructed /\ ~NotNull(BagGet(last.arg, "id")) =>
          (hasChanged(heap, "p") <=> SetsSomething)
    /\ last.kind = "setBag" /\ "id" \in BagKeys(last.arg) =>
          ~hasChanged(heap, "p")

C27_Witness ==
    /\ Constructed /\ "id" \in BagKeys(last.arg)
    /\ BagGet(last.arg, "id") = Null /\ BagGet(last.arg, "foo") = "v2"
    /\ hasChanged(heap, "p")

\* the latest step was set('id', v) with v different from the current id
SetOfId == /\ last.kind = "set" /\ last.arg[1][1] = "id"
           /\ last.arg[1][2] # last.was.fields["id"]
\* ... and it recorded id -> v and kept every other dirty entry
RecordsId ==
    /\ Records(heap, "p", "id", last.arg[1][2])
    /\ \A k \in DOMAIN DirtOf(last.was) \ {"id"} :
          /\ k \in DOMAIN changed(heap, "p")
          /\ changed(heap, "p")[k] = DirtOf(last.was)[k]
    /\ DOMAIN changed(heap, "p") = DOMAIN DirtOf(last.was) \cup {"id"}

\* C28 (as stated): single-form set('id', v) with v different from the
\* current id does not clear the dirty state: it records id -> v, keeps
\* every existing dirty entry and makes hasChanged() true, while the entity
\* becomes non-new for the next save dispatch.
C28_Original ==
    SetOfId => /\ RecordsId
               /\ ~isNew(heap, "p") /\ Dispatch(heap, "p") = "update"

\* C28 (amended): ... it records id -> v, keeps every existing dirty entry
\* and makes hasChanged() true; the entity becomes non-new for the next
\* save dispatch when v is neither null nor undefined, and is new when v is
\* null or undefined.
C28_SetIdKeepsDirt ==
    SetOfId => /\ RecordsId
               /\ NotNull(last.arg[1][2]) =>
                     ~isNew(heap, "p") /\ Dispatch(heap, "p") = "update"
               /\ ~NotNull(last.arg[1][2]) =>
                     isNew(heap, "p") /\ Dispatch(heap, "p") = "create"

C28_Witness ==
    /\ SetOfId /\ last.arg[1][2] = "v1"
    /\ DOMAIN DirtOf(last.was) = {"foo", "name"}
    /\ DOMAIN changed(heap, "p") = {"foo", "name", "id"}

---------------------------------------------------------------------------
(* destroy *)

\* C29: destroy changes nothing on the entity itself: neither the call nor
\* its completion (with or without error) changes id, any field, the dirty
\* state or refreshedAt, so what they are after destroy completes is what
\* they were before apart from what the adapter did; a destroyed entity
\* that had an id is still non-new and a later save dispatches to update.
C29_DestroyChangesNothing ==
    /\ [](Completed("destroy") =>
            /\ Snapshot(heap, "p") = last.before
            /\ ~last.call.touched => Snapshot(heap, "p") = last.call.pre
            /\ NotNull(last.before.id) =>
                  ~isNew(heap, "p") /\ Dispatch(heap, "p") = "update")
    /\ [][/\ last'.kind \in {"callback", "done"} /\ last'.call.op = "destroy"
             => heap' = heap
          /\ \A s \in Slots :
                calls[s].op = "idle" /\ calls'[s].op = "destroy"
                   => heap' = heap]_vars

C29_Witness ==
    /\ CalledBack("destroy") /\ NoError(last.error)
    /\ ~isNew(heap, "p") /\ hasChanged(heap, "p")
    /\ heap.objs["p"].refreshedAt # Undef /\ ~last.call.touched
---------------------------------------------------------------------------
(* Repeated saves *)

\* C24: after a save that chose create completes without error the entity
\* is no longer new, and a later save of it dispatches to data.update and
\* never to data.create as long as id is not removed in between; whereas
\* after create reported success without setting id, a repeated save
\* dispatches to data.create again.
C24_CreateThenUpdate ==
    /\ Completed("save") /\ last.call.invoked = <<"create">>
                         /\ NoError(last.error) => ~isNew(heap, "p")
    /\ \A c \in Saves :
          /\ c.stage = "adapter" =>
                c.invoked = <<IF c.wasNew THEN "create" ELSE "update">>
          /\ c.after = "created" /\ ~c.touched =>
                /\ ~isNew(heap, c.self)
                /\ c.stage = "adapter" => c.invoked = <<"update">>
          /\ c.after = "unset" /\ ~c.touched =>
                /\ isNew(heap, c.self)
                /\ c.stage = "adapter" => c.invoked = <<"create">>

C24_Witness ==
    /\ CalledBack("save") /\ last.call.after = "created"
    /\ last.call.invoked = <<"update">> /\ NoError(last.error)
    /\ ~last.call.touched
---------------------------------------------------------------------------
(* Derivation, init and construction order *)

\* the most-derived of the first k derivation steps that supplies an init
\* hook, 0 when none does
MostDerived(chain, k) ==
    IF \E i \in 1..k : chain[i].init # Undef
    THEN CHOOSE i \in 1..k : /\ chain[i].init # Undef
                             /\ \A j \in (i + 1)..k : chain[j].init = Undef
    ELSE 0
\* the hooks the claim expects to run for a type derived by the first k
\* steps: the most-derived one, and the most-derived one below it when it
\* calls super_.init, and so on
RECURSIVE Hooks(_, _)
Hooks(chain, k) ==
    LET j == MostDerived(chain, k)
    IN  IF j = 0 THEN <<>>
        ELSE <<j>> \o (IF chain[j].init = "super" THEN Hooks(chain, j - 1)
                       ELSE <<>>)
\* the derivation steps whose hooks ran on the entity, in order
RanSteps == [i \in 1..Len(heap.objs["p"].inits) |->
                heap.objs["p"].inits[i].step]

\* C21: constructing an instance of a derived type runs only the
\* most-derived init, exactly once; a parent init runs only when the
\* child's init calls it through super_, in which case the effects of both
\* are present on the instance, for a derivation chain of any depth within
\* the bound.
C21_InitOnce ==
    Constructed =>
        /\ RanSteps = Hooks(app.chain, Len(app.chain))
        /\ \A i, j \in DOMAIN RanSteps : i # j => RanSteps[i] # RanSteps[j]
        /\ MostDerived(app.chain, Len(app.chain)) # 0 =>
              RanSteps[1] = MostDerived(app.chain, Len(app.chain))
        /\ \A i \in DOMAIN RanSteps : i > 1 =>
              /\ app.chain[RanSteps[i - 1]].init = "super"
              /\ RanSteps[i] = MostDerived(app.chain, RanSteps[i - 1] - 1)

C21_Witness ==
    /\ Constructed /\ Len(app.chain) = 3
    /\ app.chain[1].init = "own" /\ app.chain[2].init = Undef
    /\ app.chain[3].init = "super"
    /\ RanSteps = <<3, 1>>

---------------------------------------------------------------------------
(* Events *)

\* the handlers registered on the entity for the event name, in
\* registration order
Registered(e, eventName) == e._events[eventName]

\* C23: on an entity of the root type or of a derived type,
\* emit(eventName, args) delivers the arguments, before it returns, to
\* every handler registered for that name with on, in registration order,
\* and to no handler registered for another name or on another entity.
C23_EmitDelivers ==
    "events" \in app.uses =>
        /\ last.kind # "throw"
        /\ last.kind = "on" =>
              /\ Registered(heap.objs["p"], last.result[1]) =
                    Append(Registered(last.was, last.result[1]),
                           last.result[2])
              /\ \A n \in EventNames \ {last.result[1]} :
                    Registered(heap.objs["p"], n) = Registered(last.was, n)
        /\ last.kind = "emit" =>
              LET reg == Registered(heap.objs["p"], last.result[1])
              IN  /\ Len(last.result[3]) = Len(reg)
                  /\ \A i \in DOMAIN reg :
                        /\ last.result[3][i].handler = reg[i]
                        /\ last.result[3][i].args = last.result[2]
                        /\ last.result[3][i].this = "p"

C23_Witness ==
    /\ last.kind = "emit" /\ app.chain # <<>>
    /\ last.result[1] = "foo" /\ Len(last.result[3]) = 2
    /\ last.result[3][1].handler = "h2" /\ last.result[3][2].handler = "h1"
    /\ Registered(heap.objs["p"], "bar") = <<"h1">>
    /\ Registered(heap.objs["q"], "foo") # <<>>

---------------------------------------------------------------------------
(* Partial data records *)

\* C30 (as stated): for a derived type whose overrides supply a data record
\* with only some of the four operations, a public operation whose adapter
\* operation was not supplied still ends by handing the callback a
\* not-implemented error; it neither throws nor hangs.
C30_MissingOperationReported ==
    /\ last.kind \in {"callback", "done", "throw"}
    /\ last.call.invoked # <<>>
    /\ Via(last.call) \in type.missing
    => /\ last.kind # "throw"
       /\ last.reported = NotImplemented
       /\ last.cb => last.error = NotImplemented
---------------------------------------------------------------------------
(* Defaults *)

\* the defaults of the bag whose value is not undefined
Defined(defaults) == {k \in BagKeys(defaults) : BagGet(defaults, k) # Undef}

---------------------------------------------------------------------------
(* Invariants of the dirty state *)

\* C33: in every state reached through construction, set in either form,
\* save, fetch and destroy, hasChanged() is true exactly when changed() has
\* at least one key: the dirty state is never a mapping of the entity's own
\* with no entries.
C33_DirtyIsNeverEmpty ==
    \A e \in Live :
        /\ hasChanged(heap, e) <=> DOMAIN changed(heap, e) # {}
        /\ heap.objs[e]._dirtyFields.ref # "EMPTY_DIRTY" =>
              heap.objs[e]._dirtyFields.m # EmptyMap
        /\ heap.EMPTY_DIRTY = EmptyMap

C33_Witness ==
    /\ CalledBack("fetch") /\ ~NoError(last.error)
    /\ hasChanged(heap, "p") /\ DOMAIN changed(heap, "p") = {"foo"}
    /\ heap.objs["p"].refreshedAt # Undef

\* the steps that clear the dirty state: a bag-form set with an id key, a
\* save or a fetch that completes without error
ClearBoundary ==
    \/ last'.kind = "setBag" /\ "id" \in BagKeys(last'.arg)
    \/ /\ last'.kind \in {"callback", "done"}
       /\ last'.call.op \in {"save", "fetch"} /\ NoError(last'.error)

\* C34: single-form set never removes a dirty entry, and between two
\* clears (construction with id, bag-form set with id, successful save,
\* successful fetch) the set of dirty keys never shrinks; so setting a
\* field back to the value it had at the last clear leaves it in changed()
\* and leaves hasChanged() true.
C34_DirtyKeysGrow ==
    /\ [](last.kind = "set" /\ "fields" \in app.observe =>
             DOMAIN DirtOf(last.was) \subseteq DOMAIN changed(heap, "p"))
    /\ [][/\ "p" \in Live /\ "fields" \in app.observe
          /\ ~ClearBoundary
          => DOMAIN changed(heap, "p") \subseteq DOMAIN changed(heap', "p")]_vars

C34_Witness ==
    /\ last.kind = "set" /\ "fields" \in app.observe
    /\ last.arg = << <<"foo", Undef>> >>
    /\ heap.objs["p"].refreshedAt # Undef
    /\ DOMAIN DirtOf(last.was) = {"foo"} /\ DirtOf(last.was)["foo"] # Undef
    /\ hasChanged(heap, "p") /\ changed(heap, "p")["foo"] = Undef

\* the application and its adapters write fields through set only, and
\* the fields are plain: no accessor, no leading underscore
TrackedOnly == /\ "assigns" \notin app.uses /\ type.accessors = {}
               /\ \A n \in app.names : n \notin Underscored

\* C35: in every state reached by tracked set calls on plain fields
\* interleaved with save, fetch and destroy, every key k of changed()
\* carries the entity's current value of field k.
C35_DirtyValuesAreCurrent ==
    TrackedOnly =>
        \A e \in Live : \A k \in DOMAIN changed(heap, e) :
            changed(heap, e)[k] = heap.objs[e].fields[k]

C35_Witness ==
    /\ TrackedOnly /\ CalledBack("save") /\ ~NoError(last.error)
    /\ last.call.touched /\ heap.objs["p"].refreshedAt # Undef
    /\ DOMAIN changed(heap, "p") = {"foo", "name"}
    /\ changed(heap, "p")["foo"] = "v2"
    /\ heap.objs["p"].fields["foo"] = "v2"

---------------------------------------------------------------------------
(* Changes and calls while a save is in flight *)

\* C36: when set(name, v) changes a field after the adapter's create or
\* update was invoked and before the adapter reports success, the save that
\* completes successfully clears the whole dirty state: hasChanged() is
\* false and changed() does not report the field, although its new value
\* was set after the adapter was called.
C36_SuccessClearsLaterChanges ==
    /\ Completed("save") /\ NoError(last.error)
    /\ "setAfter" \in DOMAIN last.call
    => /\ ~hasChanged(heap, "p")
       /\ changed(heap, "p") = EmptyMap

C36_Witness ==
    /\ CalledBack("save") /\ NoError(last.error)
    /\ last.call.invoked = <<"update">>
    /\ "setAfter" \in DOMAIN last.call
    /\ last.call.setAfter = <<"foo", "v2">>
    /\ heap.objs["p"].fields["foo"] = "v2" /\ ~hasChanged(heap, "p")

\* C37: when save is called twice on the same entity without id before the
\* adapter of the first call has set id, both calls pass validation with id
\* absent and each invokes data.create for the entity: a save that reaches
\* its dispatch while the entity has no id invokes data.create even though
\* the data.create of another save of the entity is outstanding.
C37_OverlappingSavesBothCreate ==
    \A s \in Slots : \A r \in Slots \ {s} :
        /\ calls[s].op = "save" /\ calls[r].op = "save"
        /\ calls[s].self = calls[r].self
        /\ calls[r].stage = "adapter" /\ calls[r].invoked = <<"create">>
        /\ calls[s].stage = "adapter" /\ calls[s].wasNew
        => /\ calls[s].invoked = <<"create">>
           /\ calls[s].errors = <<>>

C37_Witness ==
    /\ \A s \in Slots : /\ calls[s].op = "save" /\ calls[s].self = "p"
                        /\ calls[s].stage = "adapter"
                        /\ calls[s].invoked = <<"create">>
                        /\ calls[s].wasNew
    /\ isNew(heap, "p")

---------------------------------------------------------------------------
(* Completion *)

Operations == {"save", "fetch", "destroy"}

\* the adapter operation the call reached is not in the type's data
\* record, so there is no adapter to call back
NoAdapter == /\ last.kind = "throw" /\ last.call.invoked # <<>>
             /\ Via(last.call) \in type.missing

---------------------------------------------------------------------------
(* Derivation precedence *)

\* whether the overrides o of a derivation step name the member m
Named(o, m) == IF m = "data" THEN o.data # Undefined ELSE o[m] # Undef
\* the most-derived step of the chain that names the member m, 0 when
\* none does
Latest(chain, m) ==
    LET S == {i \in 1..Len(chain) : Named(chain[i], m)}
    IN  IF S = {} THEN 0 ELSE CHOOSE i \in S : \A j \in S : j <= i

\* C32: for a chain of derivations of any depth within the bound, every
\* derive yields a type, each instance member of the resulting type
\* (method, accessor pair, data record, init) is the one supplied by the
\* most-derived level that names it, a member named at no level is the
\* root's, and super_ of the derived type is the prototype of the type it
\* was derived from.
C32_MostDerivedWins ==
    LET chain == app.chain
        n == Len(chain)
        C == Derive(chain)
        name == Latest(chain, "name")
        validate == Latest(chain, "validate")
        data == Latest(chain, "data")
        init == Latest(chain, "init")
    IN  n > 0 =>
        /\ ~C.threw /\ last.kind # "crash"
        /\ Lookup(C.prototype, "name").kind =
              (IF name = 0 THEN Undef ELSE chain[name].name)
        /\ type.accessors =
              {m \in {"name"} : name # 0 /\ chain[name].name = "accessor"}
        /\ type.validate =
              (IF validate = 0 THEN "default" ELSE chain[validate].validate)
        /\ type.data = (IF data = 0 THEN "default" ELSE chain[data].data.kind)
        /\ type.missing = (IF data = 0 THEN {} ELSE Ops \ chain[data].data.ops)
        /\ type.init = (IF init = 0 THEN <<>> ELSE <<init>>)
        /\ C.super_ = Derive(SubSeq(chain, 1, n - 1)).prototype
====
